---- MODULE Spec2Model ----
(***************************************************************************)
(* Model of ReportEngine/utils/dependency_check.py: the Pango dependency   *)
(* probe check_pango_available, the platform instruction selection, the    *)
(* logging wrapper log_dependency_status and the __main__ entry point.     *)
(*                                                                         *)
(* Texts that the code inspects (the text of an exception) are sequences   *)
(* of one-character strings, so that str.lower() and the substring test    *)
(* `in` are computed.  Messages are sequences of tokens: a fixed literal   *)
(* line of the source is one token (rendered here in ASCII), an embedded   *)
(* exception text contributes its characters.                              *)
(***************************************************************************)
EXTENDS Integers, Sequences, FiniteSets, TLC

VARIABLES entry, pc, hostSystem, exc, error_msg, platform_instructions,
          result, steps, nProbe, nPlatform, log, logRet, stdout, exitStatus

vars == <<entry, pc, hostSystem, exc, error_msg, platform_instructions,
          result, steps, nProbe, nPlatform, log, logRet, stdout, exitStatus>>

(***************************************************************************)
(* Bounds of the environment                                               *)
(***************************************************************************)
\* an exception text is a concatenation of at most MaxPieces pieces
MaxPieces == 2

\* pieces of loader error texts; fragments can straddle two pieces
Pieces ==
  { <<"p","a","n">>, <<"g","o">>, <<"P","A","N","G","O">>, <<"G","d">>,
    <<"k">>, <<"G","O","b","j","e","c","t">>, <<"l","i","b">>, <<"x">> }

RECURSIVE TextsUpTo(_)
TextsUpTo(n) ==
  IF n = 0 THEN { <<>> }
  ELSE LET shorter == TextsUpTo(n - 1)
       IN  shorter \cup { t \o p : t \in shorter, p \in Pieces }

ErrTexts == TextsUpTo(MaxPieces)

\* the class of a raised exception, as the except clauses tell them apart:
\* an OSError, an ImportError, or any other subclass of Exception
ExcClasses == {"OSError", "ImportError", "Exception"}

Exceptions == [class : ExcClasses, text : ErrTexts]

\* isinstance(e, cls)
IsInstance(e, cls) == cls = "Exception" \/ e.class = cls

\* values platform.system() can give; "" when it cannot be determined
Systems == {"Darwin", "Linux", "Windows", "", "Java", "linux"}

\* the three ways the module is entered
Entries == {"check_pango_available", "log_dependency_status", "__main__"}

(***************************************************************************)
(* str.lower() and the substring test                                      *)
(***************************************************************************)
UpperChars ==
  <<"A","B","C","D","E","F","G","H","I","J","K","L","M",
    "N","O","P","Q","R","S","T","U","V","W","X","Y","Z">>

LowerChars ==
  <<"a","b","c","d","e","f","g","h","i","j","k","l","m",
    "n","o","p","q","r","s","t","u","v","w","x","y","z">>

LowerChar(c) ==
  IF \E i \in 1..26 : UpperChars[i] = c
  THEN LowerChars[CHOOSE i \in 1..26 : UpperChars[i] = c]
  ELSE c

lower(s) == [i \in 1..Len(s) |-> LowerChar(s[i])]

\* Python's `frag in s`
Contains(frag, s) ==
  \E i \in 0..(Len(s) - Len(frag)) :
    \A j \in 1..Len(frag) : s[i + j] = frag[j]

\* str(e)
Str(e) == e.text

(***************************************************************************)
(* Fixed literals of the source                                            *)
(***************************************************************************)
MacBlock ==
  << "|  macOS solution:",
     "|",
     "|  1. install the system dependencies:",
     "|     brew install pango gdk-pixbuf libffi",
     "|",
     "|  2. set the environment variable (important):",
     "|     export DYLD_LIBRARY_PATH=/opt/homebrew/lib:$DYLD_LIBRARY_PATH",
     "|",
     "|  3. make it permanent (recommended):",
     "|     echo 'export DYLD_LIBRARY_PATH=/opt/homebrew/lib:$DYLD_LIBRARY_PATH' >> ~/.zshrc",
     "|     source ~/.zshrc" >>

LinuxBlock ==
  << "|  Linux solution:",
     "|",
     "|  Ubuntu/Debian:",
     "|    sudo apt-get install libpango-1.0-0 libpangoft2-1.0-0 \\",
     "|                         libgdk-pixbuf2.0-0 libffi-dev libcairo2",
     "|",
     "|  CentOS/RHEL:",
     "|    sudo yum install pango gdk-pixbuf2 libffi-devel cairo" >>

WindowsBlock ==
  << "|  Windows solution:",
     "|",
     "|  download and install the GTK3 Runtime:",
     "|  https://github.com/tschoonj/GTK-for-Windows-Runtime-Environment-Installer/releases" >>

FallbackBlock ==
  << "|  see README.md for the installation method of your system" >>

SuccessMessage == << "OK Pango dependency check passed, PDF export is available" >>

BoxTop == "+================+"
BoxHeader == "|  !  PDF export dependency missing"
BoxBlank == "|"
BoxNote == "|  PDF export will be unavailable (other features are not affected)"
BoxDocPointer == "|  full documentation: root README.md line 393, PDF export dependencies"
BoxBottom == "+================+ end"

GenericLoadPrefix == "! PDF dependency load failed: "
UnknownPrefix == "! PDF dependency check failed: "

NotInstalledLine == "! WeasyPrint is not installed"
InstallLine == "fix: pip install weasyprint"

InfoTip == << "tip: PDF export needs the Pango library, other features work normally" >>
InfoDoc == << "install instructions: see README.md in the root directory" >>

(***************************************************************************)
(* _get_platform_specific_instructions, on the value of platform.system()  *)
(***************************************************************************)
GetPlatformSpecificInstructions_LowercaseLinux(system) ==
  IF system = "Darwin" THEN MacBlock
  ELSE IF system = "linux" THEN LinuxBlock
  ELSE IF system = "Windows" THEN WindowsBlock
  ELSE FallbackBlock

GetPlatformSpecificInstructions(system) ==
  IF system = "Darwin" THEN MacBlock
  ELSE IF system = "Linux" THEN LinuxBlock
  ELSE IF system = "Windows" THEN WindowsBlock
  ELSE FallbackBlock

(***************************************************************************)
(* check_pango_available: the pieces of the try statement                  *)
(***************************************************************************)
\* the condition of line 78
MatchesKnownLibrary_CaseSensitive(msg) ==
  \/ Contains(<<"g","o","b","j","e","c","t">>, msg)
  \/ Contains(<<"p","a","n","g","o">>, msg)
  \/ Contains(<<"g","d","k">>, msg)

MatchesKnownLibrary(msg) ==
  \/ Contains(<<"g","o","b","j","e","c","t">>, lower(msg))
  \/ Contains(<<"p","a","n","g","o">>, lower(msg))
  \/ Contains(<<"g","d","k">>, lower(msg))

\* the message of lines 79-89
BoxedMessage(instructions) ==
  << BoxTop, BoxHeader, BoxBlank, BoxNote, BoxBlank >>
    \o instructions
    \o << BoxBlank, BoxDocPointer, BoxBottom >>

\* the message of line 90
GenericLoadMessage_NoText(msg) == << GenericLoadPrefix >>

GenericLoadMessage(msg) == << GenericLoadPrefix >> \o msg

\* the message of lines 93-96
PackageMissingMessage == << NotInstalledLine, InstallLine >>

\* the message of line 99
UnknownFailureMessage_LoadPrefix(e) == << GenericLoadPrefix >> \o Str(e)

UnknownFailureMessage(e) == << UnknownPrefix >> \o Str(e)

\* which except clause of lines 73-97 takes an exception raised in the try
\* body: the first whose class the exception is an instance of
Handler_NoCatchAll(e) ==
  IF IsInstance(e, "OSError") THEN "except_OSError"
  ELSE IF IsInstance(e, "ImportError") THEN "except_ImportError"
  ELSE "propagated"

Handler_CatchAllBeforeImportError(e) ==
  IF IsInstance(e, "OSError") THEN "except_OSError"
  ELSE IF IsInstance(e, "Exception") THEN "except_Exception"
  ELSE IF IsInstance(e, "ImportError") THEN "except_ImportError"
  ELSE "propagated"

Handler(e) ==
  IF IsInstance(e, "OSError") THEN "except_OSError"
  ELSE IF IsInstance(e, "ImportError") THEN "except_ImportError"
  ELSE IF IsInstance(e, "Exception") THEN "except_Exception"
  ELSE "propagated"

(***************************************************************************)
(* Initial state: one entry point is about to run on some host             *)
(***************************************************************************)
Init ==
  /\ entry \in Entries
  /\ hostSystem \in Systems
  /\ pc = "start"
  /\ exc = <<>>
  /\ error_msg = <<>>
  /\ platform_instructions = <<>>
  /\ result = <<>>
  /\ steps = <<>>
  /\ nProbe = 0
  /\ nPlatform = 0
  /\ log = <<>>
  /\ logRet = <<>>
  /\ stdout = <<>>
  /\ exitStatus = <<>>

\* one statement of the try body: it completes, or raises an exception
TryStep(here, site, next) ==
  /\ pc = here
  /\ \E outcome \in {<<>>} \cup { <<e>> : e \in Exceptions } :
       IF outcome = <<>>
       THEN /\ steps' = Append(steps, <<site, "ok">>)
            /\ pc' = next
            /\ exc' = exc
       ELSE /\ steps' = Append(steps, <<site, "raise">>)
            /\ pc' = Handler(outcome[1])
            /\ exc' = outcome
  /\ UNCHANGED <<entry, hostSystem, error_msg, platform_instructions, result,
                 nProbe, nPlatform, log, logRet, stdout, exitStatus>>

\* the probe returns to its caller
Return(here, value) ==
  /\ pc = here
  /\ result' = value
  /\ pc' = "returned"
  /\ UNCHANGED <<entry, hostSystem, exc, error_msg, platform_instructions,
                 steps, nProbe, nPlatform, log, logRet, stdout, exitStatus>>

(***************************************************************************)
(* check_pango_available                                                   *)
(***************************************************************************)
\* the call: directly, from line 106 or from line 120
CallProbe ==
  /\ pc = "start"
  /\ nProbe' = nProbe + 1
  /\ pc' = "l66"
  /\ UNCHANGED <<entry, hostSystem, exc, error_msg, platform_instructions,
                 result, steps, nPlatform, log, logRet, stdout, exitStatus>>

ImportHTML == TryStep("l66", "import_weasyprint", "l67")

ImportFFI_SkipVersion == TryStep("l67", "import_ffi", "l72")

ImportFFI == TryStep("l67", "import_ffi", "l70")

PangoVersion == TryStep("l70", "pango_version", "l72")

ReturnSuccess == Return("l72", <<TRUE, SuccessMessage>>)

\* line 75
OSErrorStr_SkipQuery ==
  /\ pc = "except_OSError"
  /\ error_msg' = Str(exc[1])
  /\ pc' = IF MatchesKnownLibrary(Str(exc[1])) THEN "l76" ELSE "l78"
  /\ UNCHANGED <<entry, hostSystem, exc, platform_instructions, result, steps,
                 nProbe, nPlatform, log, logRet, stdout, exitStatus>>

OSErrorStr ==
  /\ pc = "except_OSError"
  /\ error_msg' = Str(exc[1])
  /\ pc' = "l76"
  /\ UNCHANGED <<entry, hostSystem, exc, platform_instructions, result, steps,
                 nProbe, nPlatform, log, logRet, stdout, exitStatus>>

\* line 76: the call of _get_platform_specific_instructions, which reads
\* platform.system() at line 17
QueryPlatform ==
  /\ pc = "l76"
  /\ nPlatform' = nPlatform + 1
  /\ platform_instructions' = GetPlatformSpecificInstructions(hostSystem)
  /\ pc' = "l78"
  /\ UNCHANGED <<entry, hostSystem, exc, error_msg, result, steps, nProbe,
                 log, logRet, stdout, exitStatus>>

\* lines 78-90
OSErrorReturn ==
  Return("l78",
         IF MatchesKnownLibrary(error_msg)
         THEN <<FALSE, BoxedMessage(platform_instructions)>>
         ELSE <<FALSE, GenericLoadMessage(error_msg)>>)

\* lines 91-96
ImportErrorReturn == Return("except_ImportError", <<FALSE, PackageMissingMessage>>)

\* lines 97-99
ExceptionReturn ==
  Return("except_Exception", <<FALSE, UnknownFailureMessage(exc[1])>>)

(***************************************************************************)
(* log_dependency_status                                                   *)
(***************************************************************************)
\* lines 108-111
LogPrimary ==
  /\ pc = "returned"
  /\ entry = "log_dependency_status"
  /\ IF result[1]
     THEN /\ log' = Append(log, <<"success", result[2]>>)
          /\ pc' = "l115"
     ELSE /\ log' = Append(log, <<"warning", result[2]>>)
          /\ pc' = "l112"
  /\ UNCHANGED <<entry, hostSystem, exc, error_msg, platform_instructions,
                 result, steps, nProbe, nPlatform, logRet, stdout, exitStatus>>

\* line 112
LogInfoTip ==
  /\ pc = "l112"
  /\ log' = Append(log, <<"info", InfoTip>>)
  /\ pc' = "l113"
  /\ UNCHANGED <<entry, hostSystem, exc, error_msg, platform_instructions,
                 result, steps, nProbe, nPlatform, logRet, stdout, exitStatus>>

\* line 113
LogInfoDoc_Missing ==
  /\ pc = "l113"
  /\ log' = log
  /\ pc' = "l115"
  /\ UNCHANGED <<entry, hostSystem, exc, error_msg, platform_instructions,
                 result, steps, nProbe, nPlatform, logRet, stdout, exitStatus>>

LogInfoDoc ==
  /\ pc = "l113"
  /\ log' = Append(log, <<"info", InfoDoc>>)
  /\ pc' = "l115"
  /\ UNCHANGED <<entry, hostSystem, exc, error_msg, platform_instructions,
                 result, steps, nProbe, nPlatform, logRet, stdout, exitStatus>>

\* line 115
LogReturn ==
  /\ pc = "l115"
  /\ logRet' = <<result[1]>>
  /\ pc' = "log_returned"
  /\ UNCHANGED <<entry, hostSystem, exc, error_msg, platform_instructions,
                 result, steps, nProbe, nPlatform, log, stdout, exitStatus>>

(***************************************************************************)
(* __main__                                                                *)
(***************************************************************************)
\* line 121
MainPrint ==
  /\ pc = "returned"
  /\ entry = "__main__"
  /\ stdout' = Append(stdout, result[2])
  /\ pc' = "l122"
  /\ UNCHANGED <<entry, hostSystem, exc, error_msg, platform_instructions,
                 result, steps, nProbe, nPlatform, log, logRet, exitStatus>>

\* line 122
MainExit_Inverted ==
  /\ pc = "l122"
  /\ exitStatus' = <<IF result[1] THEN 1 ELSE 0>>
  /\ pc' = "exited"
  /\ UNCHANGED <<entry, hostSystem, exc, error_msg, platform_instructions,
                 result, steps, nProbe, nPlatform, log, logRet, stdout>>

MainExit ==
  /\ pc = "l122"
  /\ exitStatus' = <<IF result[1] THEN 0 ELSE 1>>
  /\ pc' = "exited"
  /\ UNCHANGED <<entry, hostSystem, exc, error_msg, platform_instructions,
                 result, steps, nProbe, nPlatform, log, logRet, stdout>>

Next ==
  \/ CallProbe
  \/ ImportHTML
  \/ ImportFFI
  \/ PangoVersion
  \/ ReturnSuccess
  \/ OSErrorStr
  \/ QueryPlatform
  \/ OSErrorReturn
  \/ ImportErrorReturn
  \/ ExceptionReturn
  \/ LogPrimary
  \/ LogInfoTip
  \/ LogInfoDoc
  \/ LogReturn
  \/ MainPrint
  \/ MainExit

Spec == Init /\ [][Next]_vars

(***************************************************************************)
(* Vocabulary of the properties                                            *)
(***************************************************************************)
ProbeReturned == result # <<>>

ProbeFailed == exc # <<>>

AllStepsSucceeded ==
  steps = << <<"import_weasyprint", "ok">>, <<"import_ffi", "ok">>,
             <<"pango_version", "ok">> >>

\* some window of the text equals a known fragment when letter case is ignored
HasFragmentAt(frag, text, i) ==
  \A j \in 1..Len(frag) : LowerChar(text[i + j]) = frag[j]

HasKnownFragment(text) ==
  \E frag \in { <<"g","o","b","j","e","c","t">>, <<"p","a","n","g","o">>,
                <<"g","d","k">> } :
    \E i \in 0..(Len(text) - Len(frag)) : HasFragmentAt(frag, text, i)

FailureCategory ==
  IF exc[1].class = "OSError"
  THEN IF HasKnownFragment(exc[1].text) THEN "NativeLibraryMissing"
       ELSE "NativeLoadOtherFailure"
  ELSE IF exc[1].class = "ImportError" THEN "PackageMissing"
  ELSE "UnknownFailure"

\* the category a message announces by its first line
MessageCategory(msg) ==
  IF msg = <<>> THEN "none"
  ELSE IF Head(msg) = BoxTop THEN "NativeLibraryMissing"
  ELSE IF Head(msg) = GenericLoadPrefix THEN "NativeLoadOtherFailure"
  ELSE IF Head(msg) = NotInstalledLine THEN "PackageMissing"
  ELSE IF Head(msg) = UnknownPrefix THEN "UnknownFailure"
  ELSE "none"

InstructionLines ==
  UNION { { b[i] : i \in 1..Len(b) } :
          b \in {MacBlock, LinuxBlock, WindowsBlock, FallbackBlock} }

StepCount(site) == Cardinality({ i \in 1..Len(steps) : steps[i][1] = site })

\* each statement of the try body runs at most once, in order, and nothing
\* of the try body runs after a statement raised
OneShotSteps ==
  /\ \A site \in {"import_weasyprint", "import_ffi", "pango_version"} :
       StepCount(site) <= 1
  /\ \A i \in 1..Len(steps) :
       /\ steps[i][1] = "pango_version" =>
            /\ i = 3
            /\ steps[1] = <<"import_weasyprint", "ok">>
            /\ steps[2] = <<"import_ffi", "ok">>
       /\ steps[i][2] = "raise" => i = Len(steps)
  /\ nProbe <= 1

C2_AvailableIffAllSucceed ==
  ProbeReturned =>
    /\ result[1] = TRUE <=> AllStepsSucceeded
    /\ result[2] = SuccessMessage <=> AllStepsSucceeded
    /\ AllStepsSucceeded <=> ~ProbeFailed

C2_Witness ==
  /\ result = <<TRUE, SuccessMessage>>
  /\ AllStepsSucceeded

(***************************************************************************)
(* C3: an OSError whose text contains 'gobject', 'pango' or 'gdk' in any   *)
(* letter case gives available = FALSE and the boxed message: header,      *)
(* PDF-only note, the instruction block of the host OS, documentation      *)
(* pointer, in this order.                                                 *)
(***************************************************************************)
C3_NativeLibraryMissingMessage ==
  (ProbeReturned /\ ProbeFailed /\ exc[1].class = "OSError"
     /\ HasKnownFragment(exc[1].text)) =>
    result = << FALSE,
                << BoxTop, BoxHeader, BoxBlank, BoxNote, BoxBlank >>
                  \o GetPlatformSpecificInstructions(hostSystem)
                  \o << BoxBlank, BoxDocPointer, BoxBottom >> >>

C3_Witness ==
  /\ ProbeReturned
  /\ ProbeFailed
  /\ exc[1] = [class |-> "OSError", text |-> <<"l","i","b","P","A","N","G","O">>]
  /\ hostSystem = "Linux"
  /\ Contains(LinuxBlock, result[2])

(***************************************************************************)
(* C4: an OSError whose text contains none of the fragments in any letter  *)
(* case gives available = FALSE and the generic prefix followed by the raw *)
(* text, with no instruction line, the same on every host OS.              *)
(***************************************************************************)
C4_OtherLoadFailureMessage ==
  (ProbeReturned /\ ProbeFailed /\ exc[1].class = "OSError"
     /\ ~HasKnownFragment(exc[1].text)) =>
    /\ result = << FALSE, << GenericLoadPrefix >> \o exc[1].text >>
    /\ \A i \in 1..Len(result[2]) : result[2][i] \notin InstructionLines

C4_Witness ==
  /\ ProbeReturned
  /\ ProbeFailed
  /\ exc[1] = [class |-> "OSError", text |-> <<"l","i","b","p","a","n">>]
  /\ hostSystem = "Darwin"
  /\ result[1] = FALSE

(***************************************************************************)
(* C5: an ImportError gives available = FALSE and the fixed 'install       *)
(* weasyprint' text whatever the text of the error; an import that fails   *)
(* with an OSError is never reported as package-missing.                   *)
(***************************************************************************)
C5_PackageMissingMessage ==
  (ProbeReturned /\ ProbeFailed) =>
    /\ exc[1].class = "ImportError" =>
         result = << FALSE, << NotInstalledLine, InstallLine >> >>
    /\ exc[1].class = "OSError" =>
         result[2] # << NotInstalledLine, InstallLine >>

C5_Witness ==
  /\ ProbeReturned
  /\ ProbeFailed
  /\ exc[1] = [class |-> "ImportError", text |-> <<"p","a","n","g","o">>]
  /\ steps = << <<"import_weasyprint", "raise">> >>

(***************************************************************************)
(* C6: in each of the four failure categories the probe returns            *)
(* available = FALSE and a non-empty message; the package-missing message  *)
(* has the install command, the unknown-failure message embeds the         *)
(* exception text, and the first line of a message tells its category, so  *)
(* messages of different categories are never equal.                       *)
(***************************************************************************)
C6_FailureCategoriesDistinct ==
  (ProbeReturned /\ ProbeFailed) =>
    /\ result[1] = FALSE
    /\ result[2] # <<>>
    /\ MessageCategory(result[2]) = FailureCategory
    /\ FailureCategory = "PackageMissing" =>
         \E i \in 1..Len(result[2]) : result[2][i] = InstallLine
    /\ FailureCategory = "UnknownFailure" =>
         /\ Contains(exc[1].text, result[2])
         /\ Len(result[2]) = 1 + Len(exc[1].text)

C6_Witness ==
  /\ ProbeReturned
  /\ ProbeFailed
  /\ FailureCategory = "UnknownFailure"
  /\ exc[1].text = <<"G","d","k">>

(***************************************************************************)
(* C7: the instruction block is the macOS block exactly for "Darwin", the  *)
(* Linux block exactly for "Linux", the Windows block exactly for          *)
(* "Windows" and the fallback block for every other identifier; the four   *)
(* blocks are pairwise different.                                          *)
(***************************************************************************)
C7_FourWayPlatformBranch ==
  nPlatform > 0 =>
    /\ platform_instructions = MacBlock <=> hostSystem = "Darwin"
    /\ platform_instructions = LinuxBlock <=> hostSystem = "Linux"
    /\ platform_instructions = WindowsBlock <=> hostSystem = "Windows"
    /\ platform_instructions = FallbackBlock
         <=> hostSystem \notin {"Darwin", "Linux", "Windows"}
    /\ Cardinality({MacBlock, LinuxBlock, WindowsBlock, FallbackBlock}) = 4

C7_Witness ==
  /\ nPlatform > 0
  /\ hostSystem = ""
  /\ platform_instructions = FallbackBlock

(***************************************************************************)
(* C8: log_dependency_status calls the probe once, returns the probe's     *)
(* boolean, and logs one primary record with the probe message ('success'  *)
(* when available, 'warning' otherwise); the two 'info' records are logged *)
(* exactly on failure, after the warning.                                  *)
(***************************************************************************)
C8_LogDependencyStatus ==
  /\ log # <<>> =>
       /\ entry = "log_dependency_status"
       /\ log[1] = << IF result[1] THEN "success" ELSE "warning", result[2] >>
       /\ \A i \in 2..Len(log) : log[i][1] = "info" /\ ~result[1]
  /\ pc = "log_returned" =>
       /\ nProbe = 1
       /\ logRet = << result[1] >>
       /\ result[1] => Len(log) = 1
       /\ ~result[1] => /\ Len(log) = 3
                        /\ log[2] = <<"info", InfoTip>>
                        /\ log[3] = <<"info", InfoDoc>>
  /\ logRet # <<>> => pc = "log_returned"

C8_Witness ==
  /\ pc = "log_returned"
  /\ logRet = <<FALSE>>
  /\ Len(log) = 3

(***************************************************************************)
(* C9: run as __main__, the module prints the probe message and then exits *)
(* with status 0 when the probe is available and 1 otherwise; nothing else *)
(* is printed and no other status is produced.                             *)
(***************************************************************************)
C9_MainExitStatus ==
  /\ exitStatus \in { <<>>, <<0>>, <<1>> }
  /\ stdout # <<>> => entry = "__main__" /\ stdout = << result[2] >>
  /\ exitStatus # <<>> =>
       /\ entry = "__main__"
       /\ stdout = << result[2] >>
       /\ result[1] => exitStatus = <<0>>
       /\ ~result[1] => exitStatus = <<1>>

C9_Witness ==
  /\ pc = "exited"
  /\ exitStatus = <<1>>
  /\ stdout # <<>>

(***************************************************************************)
(* C10 as stated: the probe is one-shot, and the host OS is queried at     *)
(* most once and only in the native-library-missing case (an OSError whose *)
(* text matches a known fragment).                                         *)
(***************************************************************************)
C10_QueryOnlyWhenLibraryMissing ==
  /\ OneShotSteps
  /\ nPlatform <= 1
  /\ nPlatform > 0 =>
       /\ ProbeFailed
       /\ exc[1].class = "OSError"
       /\ HasKnownFragment(exc[1].text)

(***************************************************************************)
(* C10 amended: the probe is one-shot, and the host OS is queried at most  *)
(* once, for every OSError whether or not its text matches a known         *)
(* fragment, and for no other outcome.                                     *)
(***************************************************************************)
C10_QueryOnEveryOSError ==
  /\ OneShotSteps
  /\ nPlatform <= 1
  /\ nPlatform > 0 => ProbeFailed /\ exc[1].class = "OSError"
  /\ ProbeReturned =>
       (nPlatform = 1 <=> (ProbeFailed /\ exc[1].class = "OSError"))

C10_Witness ==
  /\ ProbeReturned
  /\ ProbeFailed
  /\ exc[1].class = "OSError"
  /\ ~HasKnownFragment(exc[1].text)
  /\ nPlatform = 1

====
